---------------------------- MODULE Spec2Model ----------------------------
(***************************************************************************)
(* AlphaSignal / Sentinel Terminal.                                        *)
(*                                                                         *)
(* One interactive session of src/app.py (script run, price-widget         *)
(* fragment, chat turn with retrieval, live-research backfill and streamed *)
(* answer) and the batch job of src/etl.py, both writing the shared        *)
(* market_news table.                                                      *)
(*                                                                         *)
(* Text is a sequence of tokens: an f-string or a "+" of strings is the    *)
(* concatenation of the token sequences of its parts.  The external        *)
(* providers (vector store, web search, quote provider, completion         *)
(* provider) are opaque: every call returns any value of its result set    *)
(* or raises.  The local embedding model is a function of its text.  The   *)
(* published_at stamp of a row (utcnow) is not modelled.                   *)
(***************************************************************************)
EXTENDS Integers, Sequences, FiniteSets, TLC

VARIABLES
    selected_ticker,      \* app.py:127  value of the "Active Ticker" box
    messages,             \* app.py:137  st.session_state.messages
    market_news,          \* the 'market_news' table, rows in insertion order
    pc,                   \* position of the main script of the session
    prompt,               \* app.py:174  text submitted to chat_input, or NoPrompt
    matches,              \* app.py:191/203
    results,              \* app.py:148  the articles the loop of line 159 has not reached
    context_text,         \* app.py:206
    full_response,        \* app.py:211
    message_placeholder,  \* app.py:182  what the assistant bubble shows
    received,             \* every delta.content the stream delivered, in arrival order
    error,                \* the call whose exception ended the script run, or "none"
    turns,                \* prompts submitted so far
    messages0,            \* messages when the current turn's prompt was submitted
    first,                \* outcome of the turn's first search: "none", "hit", "miss"
    nSearch,              \* match_documents calls issued in the current turn
    nBackfill,            \* perform_live_research calls in the current turn
    nWebSearch,           \* ddgs.text calls in the current turn
    nInsert,              \* insert calls issued by the current turn
    wmetric,              \* what cols[0] shows
    wchart,               \* what cols[1] shows
    quote_err,            \* the current refresh failed in the try of app.py:75-87
    hist_err,             \* the current refresh failed in the try of app.py:93-111
    ticked,               \* the timer has rerun the fragment since the script run began
    epc,                  \* position of the batch job
    ewidx,                \* index into watchlist of the ticker being processed
    eresults,             \* etl.py:39  the articles the loop of line 50 has not reached
    count                 \* etl.py:49

sessionVars == <<selected_ticker, messages, pc, prompt, matches, results, context_text,
                 full_response, message_placeholder, received, error, turns, messages0,
                 first, nSearch, nBackfill, nWebSearch, nInsert>>
widgetVars  == <<wmetric, wchart, quote_err, hist_err, ticked>>
etlVars     == <<epc, ewidx, eresults, count>>
vars        == <<sessionVars, widgetVars, etlVars, market_news>>

---------------------------------------------------------------------------
(* Bounds of the model *)

\* A search provider returns at most this many articles per call.
MaxResults == 2
\* The table holds at most this many rows.
MaxRows == 2
\* A completion stream delivers at most this many chunks.
MaxChunks == 2
\* Prompts submitted in one session.
MaxTurns == 1

---------------------------------------------------------------------------
(* Program constants and input sets *)

watchlist == <<"NVDA", "TSLA", "AAPL", "AMD", "MSFT">>
max_results == 5
match_count == 5

NoPrompt == "<none>"
Prompts == {"why is NVDA up"}
TickerInputs == {"", "nvda"}
\* the k-th most recent article the search provider knows
Article(k) == [title |-> <<"H", ToString(k)>>, body |-> <<"C", ToString(k)>>]
\* delta.content of the k-th chunk of a stream: no text (None or ""), or the
\* k-th piece of the answer.
Fragments(k) == {<<>>, <<ToString(k)>>}
\* stock.fast_info: the read raises, or gives last_price and previous_close
QuoteOutcomes ==
    {[raises |-> TRUE, last_price |-> 0, previous_close |-> 0]}
    \cup {[raises |-> FALSE, last_price |-> 2, previous_close |-> c] : c \in {0, 1}}
\* stock.history(...): the call raises, or gives a price series
HistoryOutcomes == {"raises", "series"}
Cursor == "CURSOR"

Min(a, b) == IF a < b THEN a ELSE b

\* str.upper on the ticker inputs
upper(t) == IF t = "nvda" THEN "NVDA" ELSE t

\* model.encode(text).tolist(): a function of the text
encode(text) == <<"vec">> \o text

\* ddgs.text(f"{ticker} stock news", max_results=5) collected into results:
\* the n most recent articles, n <= max_results
WebResults ==
    {[k \in 1..n |-> Article(k)] : n \in 0..Min(max_results, MaxResults)}

\* supabase.rpc('match_documents', {..., 'match_count': 5}).execute().data:
\* at most match_count rows of the table, each at most once, in the order the
\* backend ranks them.
SearchResults(table) ==
    LET Picks == UNION {[1..n -> 1..Len(table)] : n \in 0..Min(match_count, Len(table))}
        Inj(s) == \A i, j \in 1..Len(s) : i # j => s[i] # s[j]
    IN  {[i \in 1..Len(s) |-> table[s[i]]] : s \in {p \in Picks : Inj(p)}}

\* the data payload of app.py:162-168 / etl.py:61-67
Payload(ticker, article) ==
    [ticker    |-> ticker,
     headline  |-> article.title,
     content   |-> article.body,
     embedding |-> encode(article.title \o <<". ">> \o article.body)]

\* A variant of insert that keeps one row per article (an upsert).
insertUnlessPresent(table, data) ==
    IF \E i \in 1..Len(table) : table[i] = data THEN table ELSE Append(table, data)

\* supabase.table('market_news').insert(data).execute(), when it succeeds
insert(table, data) == Append(table, data)

\* A variant of the trigger that tops the context up to match_count rows.
NeedsResearchBelowCount(m) == Len(m) < match_count

\* "if not matches" (app.py:194)
NeedsResearch(m) == m = <<>>

\* app.py:206-208
RECURSIVE Join(_)
Join(parts) ==
    IF parts = <<>> THEN <<>>
    ELSE IF Len(parts) = 1 THEN parts[1]
    ELSE parts[1] \o <<"\n\n">> \o Join(Tail(parts))

\* A variant of the context that joins the headlines alone.
ConstructContextHeadlines(m) ==
    IF m # <<>>
    THEN Join([i \in 1..Len(m) |-> <<"Headline: ">> \o m[i].headline])
    ELSE <<>>

ConstructContext(m) ==
    IF m # <<>>
    THEN Join([i \in 1..Len(m) |->
                  <<"Headline: ">> \o m[i].headline \o <<"\nBody: ">> \o m[i].content])
    ELSE <<>>

\* A variant of the accumulation that puts the new fragment first.
AccumulateFront(full, delta) == delta \o full

\* app.py:226
Accumulate(full, delta) == full \o delta

\* A variant of cols[0] whose except clause catches the provider's errors only.
MetricBlockNarrowExcept(q) ==
    IF q.raises THEN "unavailable"
    ELSE IF q.previous_close = 0 THEN "raised"
    ELSE "metric"

\* app.py:75-89: the text of cols[0]
MetricBlock(q) ==
    IF q.raises THEN "unavailable"
    ELSE IF q.previous_close = 0 THEN "unavailable"   \* ZeroDivisionError at line 80
    ELSE "metric"

\* app.py:93-113: the text of cols[1]
ChartBlock(h) == IF h = "raises" THEN "unavailable" ELSE "chart"

Idle == {"idle", "done", "failed"}

---------------------------------------------------------------------------
(* show_market_data, app.py:64-113 *)

\* One run of the fragment on `ticker`: an empty ticker returns at once and
\* renders nothing; otherwise cols[0] and cols[1] are rendered from what the
\* quote provider answers.
show_market_data(ticker) ==
    IF ticker = ""
    THEN /\ wmetric' = "none"
         /\ wchart' = "none"
         /\ quote_err' = FALSE
         /\ hist_err' = FALSE
    ELSE \E q \in QuoteOutcomes, h \in HistoryOutcomes :
            /\ wmetric' = MetricBlock(q)
            /\ quote_err' = (q.raises \/ q.previous_close = 0)
            /\ wchart' = ChartBlock(h)
            /\ hist_err' = (h = "raises")

\* A variant of the timer without st.fragment: the refresh reruns the whole
\* script, which drops the run in flight and clears its bubble.
WidgetTickFullRerun ==
    /\ show_market_data(selected_ticker)
    /\ ticked' = TRUE
    /\ pc' = "idle"
    /\ prompt' = NoPrompt
    /\ message_placeholder' = <<>>
    /\ UNCHANGED <<selected_ticker, messages, matches, results, context_text,
                   full_response, received, error, turns, messages0, first,
                   nSearch, nBackfill, nWebSearch, nInsert>>
    /\ UNCHANGED <<etlVars, market_news>>

\* run_every=30: the timer reruns the fragment alone, whatever the main script
\* is doing.
WidgetTick ==
    /\ show_market_data(selected_ticker)
    /\ ticked' = TRUE
    /\ UNCHANGED <<sessionVars, etlVars, market_news>>

---------------------------------------------------------------------------
(* The main script, app.py:122-243 *)

\* what a new script run starts from: an empty assistant bubble and no locals
ResetTurn ==
    /\ matches' = <<>>
    /\ results' = <<>>
    /\ context_text' = <<>>
    /\ full_response' = <<>>
    /\ message_placeholder' = <<>>
    /\ received' = <<>>
    /\ error' = "none"
    /\ first' = "none"
    /\ nSearch' = 0
    /\ nBackfill' = 0
    /\ nWebSearch' = 0
    /\ nInsert' = 0

\* Lines 122-142 of a script run: the ticker box is read, show_market_data is
\* called and the history is shown.  The locals of the previous run are gone.
ScriptTop(t) ==
    /\ pc \in Idle
    /\ selected_ticker' = t
    /\ show_market_data(t)
    /\ ticked' = FALSE
    /\ messages0' = messages
    /\ ResetTurn

\* The user edits the "Active Ticker" box: a script run with no prompt.
SetTicker ==
    /\ \E t \in TickerInputs \ {selected_ticker} : ScriptTop(t)
    /\ prompt' = NoPrompt
    /\ pc' = "idle"
    /\ UNCHANGED <<messages, turns>>
    /\ UNCHANGED <<etlVars, market_news>>

\* The user submits a prompt: a script run that reaches lines 174-178.
Submit ==
    /\ turns < MaxTurns
    /\ ScriptTop(selected_ticker)
    /\ \E p \in Prompts :
          /\ prompt' = p
          /\ messages' = Append(messages, [role |-> "user", content |-> <<p>>])
    /\ turns' = turns + 1
    /\ pc' = "search"
    /\ UNCHANGED <<etlVars, market_news>>

Raise(what) ==
    /\ pc' = "failed"
    /\ error' = what

\* lines 185-194: the first search
Search ==
    /\ pc = "search"
    /\ nSearch' = nSearch + 1
    /\ \/ /\ Raise("search")
          /\ UNCHANGED <<matches, first>>
       \/ \E m \in SearchResults(market_news) :
             /\ matches' = m
             /\ first' = IF m = <<>> THEN "miss" ELSE "hit"
             /\ pc' = IF NeedsResearch(m) THEN "research" ELSE "create"
             /\ UNCHANGED error
    /\ UNCHANGED <<selected_ticker, messages, prompt, results, context_text, full_response,
                   message_placeholder, received, turns, messages0,
                   nBackfill, nWebSearch, nInsert>>
    /\ UNCHANGED <<widgetVars, etlVars, market_news>>

\* lines 196-197 and 146-158: perform_live_research up to the insert loop
Research ==
    /\ pc = "research"
    /\ nBackfill' = nBackfill + 1
    /\ nWebSearch' = nWebSearch + 1
    /\ \/ /\ results' = <<>>            \* except: "Search Failed", return
          /\ pc' = "retry"
       \/ \E r \in WebResults :
             /\ results' = r
             /\ pc' = IF r = <<>> THEN "retry" ELSE "insert"
    /\ UNCHANGED <<selected_ticker, messages, prompt, matches, context_text, full_response,
                   message_placeholder, received, error, turns, messages0, first,
                   nSearch, nInsert>>
    /\ UNCHANGED <<widgetVars, etlVars, market_news>>

\* lines 159-171: one iteration of the insert loop
Insert ==
    /\ pc = "insert"
    /\ Len(market_news) < MaxRows
    /\ nInsert' = nInsert + 1
    /\ \/ /\ market_news' =
                insert(market_news, Payload(upper(upper(selected_ticker)), Head(results)))
          /\ results' = Tail(results)
          /\ pc' = IF Tail(results) = <<>> THEN "retry" ELSE "insert"
          /\ UNCHANGED error
       \/ /\ Raise("insert")            \* line 169 is in no try
          /\ results' = Tail(results)
          /\ UNCHANGED market_news
    /\ UNCHANGED <<selected_ticker, messages, prompt, matches, context_text, full_response,
                   message_placeholder, received, turns, messages0, first,
                   nSearch, nBackfill, nWebSearch>>
    /\ UNCHANGED <<widgetVars, etlVars>>

\* lines 199-203: the re-search
Retry ==
    /\ pc = "retry"
    /\ nSearch' = nSearch + 1
    /\ \/ /\ Raise("search")
          /\ UNCHANGED matches
       \/ \E m \in SearchResults(market_news) :
             /\ matches' = m
             /\ pc' = "create"
             /\ UNCHANGED error
    /\ UNCHANGED <<selected_ticker, messages, prompt, results, context_text, full_response,
                   message_placeholder, received, turns, messages0, first,
                   nBackfill, nWebSearch, nInsert>>
    /\ UNCHANGED <<widgetVars, etlVars, market_news>>

\* lines 206-221: the context, then client.chat.completions.create(..., stream=True)
Create ==
    /\ pc = "create"
    /\ context_text' = ConstructContext(matches)
    /\ full_response' = <<>>
    /\ \/ /\ pc' = "stream"
          /\ UNCHANGED error
       \/ Raise("completion")
    /\ UNCHANGED <<selected_ticker, messages, prompt, matches, results,
                   message_placeholder, received, turns, messages0, first,
                   nSearch, nBackfill, nWebSearch, nInsert>>
    /\ UNCHANGED <<widgetVars, etlVars, market_news>>

\* lines 224-227: one chunk of the stream
StreamChunk ==
    /\ pc = "stream"
    /\ Len(received) < MaxChunks
    /\ \E d \in Fragments(Len(received) + 1) :
          /\ received' = Append(received, d)
          /\ IF d # <<>>
             THEN /\ full_response' = Accumulate(full_response, d)
                  /\ message_placeholder' = Accumulate(full_response, d) \o <<Cursor>>
             ELSE UNCHANGED <<full_response, message_placeholder>>
    /\ UNCHANGED <<selected_ticker, messages, pc, prompt, matches, results, context_text,
                   error, turns, messages0, first, nSearch, nBackfill, nWebSearch, nInsert>>
    /\ UNCHANGED <<widgetVars, etlVars, market_news>>

\* A variant of the failing iteration that saves what has arrived so far.
StreamErrorKeepsPartial ==
    /\ pc = "stream"
    /\ Raise("completion")
    /\ messages' = Append(messages, [role |-> "assistant", content |-> full_response])
    /\ UNCHANGED <<selected_ticker, prompt, matches, results, context_text,
                   full_response, message_placeholder, received, turns, messages0, first,
                   nSearch, nBackfill, nWebSearch, nInsert>>
    /\ UNCHANGED <<widgetVars, etlVars, market_news>>

\* the iteration of line 224 raises
StreamError ==
    /\ pc = "stream"
    /\ Raise("completion")
    /\ UNCHANGED <<selected_ticker, messages, prompt, matches, results, context_text,
                   full_response, message_placeholder, received, turns, messages0, first,
                   nSearch, nBackfill, nWebSearch, nInsert>>
    /\ UNCHANGED <<widgetVars, etlVars, market_news>>

\* the stream is exhausted: lines 229-243
StreamEnd ==
    /\ pc = "stream"
    /\ message_placeholder' = full_response
    /\ messages' = Append(messages, [role |-> "assistant", content |-> full_response])
    /\ pc' = "done"
    /\ UNCHANGED <<selected_ticker, prompt, matches, results, context_text,
                   full_response, received, error, turns, messages0, first,
                   nSearch, nBackfill, nWebSearch, nInsert>>
    /\ UNCHANGED <<widgetVars, etlVars, market_news>>

---------------------------------------------------------------------------
(* The batch job, etl.py:24-87 *)

\* the end of fetch_and_store_data (line 76) and the loop of line 84
EtlAfter(rest) == IF rest # <<>> THEN "insert"
                  ELSE IF ewidx < Len(watchlist) THEN "fetch" ELSE "done"

EtlNextIdx(rest) == IF rest = <<>> /\ ewidx < Len(watchlist) THEN ewidx + 1 ELSE ewidx

\* etl.py:25-49: the price check and the news search of fetch_and_store_data;
\* neither call is in a try.
EtlFetch ==
    /\ epc = "fetch"
    /\ \/ \E r \in WebResults :
             /\ eresults' = r
             /\ count' = 0
             /\ epc' = EtlAfter(r)
             /\ ewidx' = EtlNextIdx(r)
       \/ /\ epc' = "crashed"           \* stock.history or ddgs.text raises
          /\ UNCHANGED <<ewidx, eresults, count>>
    /\ UNCHANGED <<sessionVars, widgetVars, market_news>>

\* etl.py:50-74: one iteration of the loop
EtlInsert ==
    /\ epc = "insert"
    /\ Len(market_news) < MaxRows
    /\ \/ /\ market_news' = insert(market_news, Payload(watchlist[ewidx], Head(eresults)))
          /\ count' = count + 1
       \/ /\ UNCHANGED <<market_news, count>>     \* except: "Error saving article"
    /\ eresults' = Tail(eresults)
    /\ epc' = EtlAfter(Tail(eresults))
    /\ ewidx' = EtlNextIdx(Tail(eresults))
    /\ UNCHANGED <<sessionVars, widgetVars>>

---------------------------------------------------------------------------

\* What an earlier run of the batch job left in the table.
SeedTables == {<<>>, <<Payload(watchlist[1], Article(1))>>}

\* The first script run of a session has ended: the default ticker, the widget
\* rendered once, an empty history (line 137) and no prompt yet.
InitSession ==
    /\ selected_ticker = "NVDA"
    /\ messages = <<>>
    /\ pc = "idle"
    /\ prompt = NoPrompt
    /\ matches = <<>>
    /\ results = <<>>
    /\ context_text = <<>>
    /\ full_response = <<>>
    /\ message_placeholder = <<>>
    /\ received = <<>>
    /\ error = "none"
    /\ turns = 0
    /\ messages0 = <<>>
    /\ first = "none"
    /\ nSearch = 0
    /\ nBackfill = 0
    /\ nWebSearch = 0
    /\ nInsert = 0
    /\ \E q \in QuoteOutcomes, h \in HistoryOutcomes :
          /\ wmetric = MetricBlock(q)
          /\ quote_err = (q.raises \/ q.previous_close = 0)
          /\ wchart = ChartBlock(h)
          /\ hist_err = (h = "raises")
    /\ ticked = FALSE

\* A session on a table that no batch job is writing.
Init ==
    /\ InitSession
    /\ market_news \in SeedTables
    /\ epc = "done"
    /\ ewidx = Len(watchlist)
    /\ eresults = <<>>
    /\ count = 0

\* A session and the batch job, started on an empty table.
InitSystem ==
    /\ InitSession
    /\ market_news = <<>>
    /\ epc = "fetch"
    /\ ewidx = 1
    /\ eresults = <<>>
    /\ count = 0

Next ==
    \/ WidgetTick
    \/ SetTicker
    \/ Submit
    \/ Search
    \/ Research
    \/ Insert
    \/ Retry
    \/ Create
    \/ StreamChunk
    \/ StreamError
    \/ StreamEnd

NextSystem ==
    \/ Next
    \/ EtlFetch
    \/ EtlInsert

Spec == Init /\ [][Next]_vars

SpecSystem == InitSystem /\ [][NextSystem]_vars

---------------------------------------------------------------------------
(* Properties *)

InFlight == pc \notin Idle

UserMessage == [role |-> "user", content |-> <<prompt>>]

\* the concatenation of the fragments of a stream, in arrival order
RECURSIVE Flatten(_)
Flatten(chunks) ==
    IF chunks = <<>> THEN <<>> ELSE Head(chunks) \o Flatten(Tail(chunks))

\* the text of the assistant bubble without the typewriter cursor
Shown(bubble) ==
    IF bubble # <<>> /\ bubble[Len(bubble)] = Cursor
    THEN SubSeq(bubble, 1, Len(bubble) - 1)
    ELSE bubble

\* the entries of a context block: the texts between its separators
RECURSIVE Entries(_)
Entries(text) ==
    IF text = <<>> THEN <<>>
    ELSE LET seps == {i \in 1..Len(text) : text[i] = "\n\n"}
         IN  IF seps = {} THEN <<text>>
             ELSE LET i == CHOOSE x \in seps : \A y \in seps : x <= y
                  IN  <<SubSeq(text, 1, i - 1)>> \o Entries(SubSeq(text, i + 1, Len(text)))

\* the script has run past the construction of the context (line 208)
ContextBuilt == pc \in {"stream", "done"} \/ (pc = "failed" /\ error = "completion")

RowsOf(table, t) == SelectSeq(table, LAMBDA r : r.ticker = t)

TickersOf(table) == {table[i].ticker : i \in 1..Len(table)}

\* C1: in a turn whose first search returned no match, the backfill is called
\* exactly once and is followed by exactly one retry search, whatever the
\* backfill did; there is never a second backfill or a third search.
C1_BackfillOnceThenOneRetry ==
    /\ nBackfill <= 1
    /\ nSearch <= 2
    /\ (first = "miss" /\ pc \notin {"research", "insert", "retry"})
          => (nBackfill = 1 /\ nSearch = 2)

\* C2: in a turn whose first search returned at least one match, the backfill
\* is never called: no web search, no insert, and a single search.
C2_HitNeverBackfills ==
    first = "hit" => /\ nBackfill = 0
                     /\ nWebSearch = 0
                     /\ nInsert = 0
                     /\ nSearch = 1

C2_Witness == first = "hit" /\ pc = "done"

\* C3 as stated: a completion failure ends the turn in the error state with the
\* history exactly as it was before the turn.
C3_HistoryAsBeforeTurn ==
    error = "completion" => (pc = "failed" /\ messages = messages0)

\* C3 as amended: a completion failure, at the request or at any chunk, ends the
\* turn in the error state with the history it had before the turn plus the
\* turn's user message: no assistant message, partial or whole, is persisted.
C3_NoAssistantMessageOnFailure ==
    error = "completion" => (pc = "failed" /\ messages = Append(messages0, UserMessage))

C3_Witness == error = "completion" /\ full_response # <<>>

\* C4: a provider failure during the backfill (the web search or an insert)
\* never ends the turn: the script goes on to the retry search.
C4_BackfillFailureNeverEndsTurn ==
    ~(pc = "failed" /\ error = "insert")

\* C5: the news table is append-only under every operation: a step leaves it
\* alone or appends one row, an insert that succeeds appends its row even when
\* an equal row is there, and the rows of every other ticker stay as they were.
C5_AppendOnly ==
    [][/\ \/ market_news' = market_news
          \/ /\ Len(market_news') = Len(market_news) + 1
             /\ SubSeq(market_news', 1, Len(market_news)) = market_news
             /\ \A t \in TickersOf(market_news') \ {market_news'[Len(market_news')].ticker} :
                   RowsOf(market_news', t) = RowsOf(market_news, t)
       /\ (nInsert' = nInsert + 1 /\ error' = "none")
             => /\ Len(market_news') = Len(market_news) + 1
                /\ market_news'[Len(market_news')] =
                      Payload(upper(selected_ticker), Head(results))
       /\ (count' = count + 1)
             => /\ Len(market_news') = Len(market_news) + 1
                /\ market_news'[Len(market_news')] =
                      Payload(watchlist[ewidx], Head(eresults))
      ]_vars

\* the same article ingested twice for the same ticker: two equal rows
C5_Witness ==
    /\ Len(market_news) = 2
    /\ market_news[1] = market_news[2]
    /\ nInsert = 1
    /\ count = 1

\* C6: on both ingestion paths an insert that fails costs its own article only:
\* once a loop has ended, every fetched article has been attempted.
C6_FailedInsertSkipsOneArticle ==
    /\ pc \notin {"research", "insert"} => results = <<>>
    /\ epc \in {"fetch", "done"} => eresults = <<>>

\* C7: while the answer streams the bubble shows the fragments received so
\* far, in arrival order; the assistant message is appended once, after the
\* stream has ended, with all the fragments; a completed turn has added the
\* user message and then that assistant message to the history.
C7_StreamThenAppendOnce ==
    /\ pc \in {"stream", "done"}
          => /\ full_response = Flatten(received)
             /\ Shown(message_placeholder) = Flatten(received)
    /\ (InFlight \/ pc = "failed") => messages = Append(messages0, UserMessage)
    /\ pc = "done"
          => /\ message_placeholder = Flatten(received)
             /\ messages = messages0 \o
                   <<UserMessage, [role |-> "assistant", content |-> Flatten(received)]>>

C7_Witness == pc = "done" /\ Len(full_response) = 2 /\ Len(received) = 2

\* C8: a failure of the quote provider, or of the computation on what it gave,
\* leaves the widget showing "unavailable" and raises nothing to the caller; on
\* an empty ticker the widget renders nothing.
C8_WidgetDegrades ==
    /\ wmetric \in {"none", "metric", "unavailable"}
    /\ wchart \in {"none", "chart", "unavailable"}
    /\ quote_err => wmetric = "unavailable"
    /\ hist_err => wchart = "unavailable"
    /\ selected_ticker = "" => (wmetric = "none" /\ wchart = "none")

C8_Witness == quote_err /\ hist_err /\ ticked /\ wmetric = "unavailable"

\* C9: the context block holds one entry per match, in the order of the match
\* list, each with the headline and the body of its match; no match is
\* dropped, duplicated or moved, and no match gives the empty text.
C9_ContextFollowsMatches ==
    ContextBuilt =>
       /\ matches = <<>> => context_text = <<>>
       /\ Len(Entries(context_text)) = Len(matches)
       /\ \A i \in 1..Len(matches) :
             Entries(context_text)[i] =
                <<"Headline: ">> \o matches[i].headline \o <<"\nBody: ">> \o matches[i].content

C9_Witness ==
    /\ ContextBuilt
    /\ Len(matches) = 2
    /\ matches[1].headline = Article(2).title
    /\ matches[2].headline = Article(1).title

\* C10: a widget refresh that interleaves with a turn in flight changes nothing
\* of the session or of the table, and the active ticker is written by neither:
\* it changes only with a script run that the user's edit of the box starts.
C10_WidgetSharesNothing ==
    [][/\ (InFlight /\ <<wmetric, wchart, quote_err, hist_err, ticked>>' # widgetVars)
             => UNCHANGED <<sessionVars, market_news>>
       /\ (InFlight /\ sessionVars' # sessionVars) => UNCHANGED widgetVars
       /\ selected_ticker' # selected_ticker
             => (pc \in Idle /\ pc' = "idle" /\ prompt' = NoPrompt)
      ]_vars

C10_Witness == pc = "stream" /\ received # <<>> /\ ticked

===========================================================================
